---- MODULE Spec2Model ----
(***************************************************************************)
(* Model of plugins/modules/vmware_guest_floppy.py: the reconciliation of  *)
(* a virtual machine's floppy drive against the module parameters.         *)
(*                                                                         *)
(* One module run is main() -> PyVmomiHelper.apply_floppy_op(vm).  The run *)
(* is split only where the code blocks on the remote system: the call of   *)
(* ReconfigVM_Task and every iteration of the poll loop of wait_for_task.  *)
(* The remote reconfiguration job is the environment: it moves             *)
(* queued -> running -> success | error and, on success, changes the VM's  *)
(* hardware as the submitted change set says.                              *)
(*                                                                         *)
(* Python values: dicts are records (a key that is not set is not in the   *)
(* DOMAIN), None for a string parameter is PyNone, an optional object is a *)
(* sequence of length 0 or 1, a message is a sequence of text pieces so    *)
(* that "%s" formatting is a concatenation.                                *)
(***************************************************************************)
EXTENDS Integers, Sequences, FiniteSets, TLC

VARIABLES vm, params, pc, self, vm_obj, task, fault, result, run, polls,
          reconfig_calls, facts_calls, history

vars == <<vm, params, pc, self, vm_obj, task, fault, result, run, polls,
          reconfig_calls, facts_calls, history>>

\* ---------------------------------------------------------------- bounds
\* number of module runs in a row with the same parameters
MaxRuns == 2
\* the poll counter of wait_for_task saturates here; the loop itself goes on
MaxPolls == 2

\* ------------------------------------------------------------- value sets
PyNone == "<None>"
NoObject == <<>>

ImagePaths == {"[datastore1] base.flp", "[datastore1] base_new.flp"}
RemoteMsgs == {<<"restricted by license">>, <<"device busy">>}
PowerStates == {"poweredOn", "poweredOff"}
States == {"present", "absent"}
Types == {PyNone, "none", "client", "flp", "image_file"}
ImageFileParams == {PyNone} \cup ImagePaths

RemoteDeviceBackingInfo == [class |-> "RemoteDeviceBackingInfo"]
ImageBackingInfo(fileName) == [class |-> "ImageBackingInfo", fileName |-> fileName]
UnsetBacking == [class |-> "unset"]

\* pyVmomi's value of an integer property that was never assigned
UnsetKey == 0

\* the key the remote system gives a device of a class
RemoteKey(class) ==
  IF class = "VirtualSIOController" THEN 400
  ELSE IF class = "VirtualFloppy" THEN 8000
  ELSE 200

IdeController ==
  [class |-> "VirtualIDEController", key |-> RemoteKey("VirtualIDEController")]
ExistingSio ==
  [class |-> "VirtualSIOController", key |-> RemoteKey("VirtualSIOController"),
   busNumber |-> 0]

Backings == {RemoteDeviceBackingInfo} \cup {ImageBackingInfo(p) : p \in ImagePaths}
ConnectInfos == [allowGuestControl : BOOLEAN, startConnected : BOOLEAN, connected : BOOLEAN]
ExistingFloppies ==
  { [class |-> "VirtualFloppy", key |-> RemoteKey("VirtualFloppy"),
     controllerKey |-> ExistingSio.key,
     backing |-> b, connectable |-> c] : b \in Backings, c \in ConnectInfos }

\* hardware lists a VM can have: a floppy is always attached to an SIO controller
HardwareLists ==
  {<<IdeController>>, <<IdeController, ExistingSio>>}
    \cup { <<IdeController, ExistingSio, f>> : f \in ExistingFloppies }

VMs ==
  { [config |-> [template |-> t, hardware |-> [device |-> d]],
     runtime |-> [powerState |-> p]] :
       t \in BOOLEAN, d \in HardwareLists, p \in PowerStates }

ParamSets == [state : States, type : Types, image_file : ImageFileParams,
              start_connected : BOOLEAN]

\* ------------------------------------------------- PyVmomiDeviceHelper
IsSpec(x) == "operation" \in DOMAIN x

create_sio_controller ==
  [operation |-> "add",
   device |-> [class |-> "VirtualSIOController", key |-> UnsetKey, busNumber |-> 0]]

create_floppy(sio_ctl, floppy_type, flp_path) ==
  LET ctl == IF IsSpec(sio_ctl) THEN sio_ctl.device ELSE sio_ctl
  IN [operation |-> "add",
      device |-> [class |-> "VirtualFloppy", key |-> -1, controllerKey |-> ctl.key,
                  backing |-> IF floppy_type \in {"none", "client"} THEN RemoteDeviceBackingInfo
                              ELSE IF floppy_type = "flp" THEN ImageBackingInfo(flp_path)
                              ELSE UnsetBacking,
                  connectable |-> [allowGuestControl |-> TRUE,
                                   startConnected |-> (floppy_type # "none"),
                                   connected |-> FALSE]]]

is_equal_floppy(v, floppy_device, floppy_type, flp_path) ==
  CASE floppy_type = "none" ->
         /\ floppy_device.backing.class = "RemoteDeviceBackingInfo"
         /\ floppy_device.connectable.allowGuestControl
         /\ ~floppy_device.connectable.startConnected
         /\ (v.runtime.powerState # "poweredOn" \/ ~floppy_device.connectable.connected)
    [] floppy_type = "client" ->
         /\ floppy_device.backing.class = "RemoteDeviceBackingInfo"
         /\ floppy_device.connectable.allowGuestControl
         /\ floppy_device.connectable.startConnected
         /\ (v.runtime.powerState # "poweredOn" \/ floppy_device.connectable.connected)
    [] floppy_type = "flp" ->
         /\ floppy_device.backing.class = "ImageBackingInfo"
         /\ floppy_device.backing.fileName = flp_path
         /\ floppy_device.connectable.allowGuestControl
         /\ floppy_device.connectable.startConnected
         /\ (v.runtime.powerState # "poweredOn" \/ floppy_device.connectable.connected)
    [] OTHER -> FALSE

\* ------------------------------------------------------- PyVmomiHelper
IsSio(d) == d.class = "VirtualSIOController"
IsFloppy(d) == d.class = "VirtualFloppy"

get_vm_sio_device(v) ==
  LET found == SelectSeq(v.config.hardware.device, IsSio)
  IN IF found = <<>> THEN NoObject ELSE <<Head(found)>>

get_vm_floppy_device(v) ==
  LET found == SelectSeq(v.config.hardware.device, IsFloppy)
  IN IF found = <<>> THEN NoObject ELSE <<Head(found)>>

\* the helper right after __init__ and the first two lines of apply_floppy_op
NewHelper == [deviceChange |-> <<>>, change_detected |-> FALSE]

gather_facts(v) ==
  [hw_power_status |-> v.runtime.powerState,
   hw_devices |-> v.config.hardware.device]

remove_floppy_on_template(s, v) ==
  LET floppy_device == get_vm_floppy_device(v)
  IN IF floppy_device = NoObject THEN s
     ELSE [deviceChange |-> Append(s.deviceChange,
                                   [operation |-> "remove", device |-> floppy_device[1]]),
           change_detected |-> TRUE]

remove_floppy_flag_forgotten(s, v) ==
  IF v.config.template THEN s
  ELSE LET floppy_device == get_vm_floppy_device(v)
       IN IF floppy_device = NoObject THEN s
          ELSE [deviceChange |-> Append(s.deviceChange,
                                        [operation |-> "remove", device |-> floppy_device[1]]),
                change_detected |-> s.change_detected]

remove_floppy(s, v) ==
  IF v.config.template THEN s
  ELSE LET floppy_device == get_vm_floppy_device(v)
       IN IF floppy_device = NoObject THEN s
          ELSE [deviceChange |-> Append(s.deviceChange,
                                        [operation |-> "remove", device |-> floppy_device[1]]),
                change_detected |-> TRUE]

\* lines 331-344: the edit of an existing floppy
edit_floppy(v, floppy_device, p) ==
  LET floppy_type == p.type
      backing == IF floppy_type \in {"client", "none"} THEN RemoteDeviceBackingInfo
                 ELSE IF floppy_type = "flp" THEN ImageBackingInfo(p.image_file)
                 ELSE floppy_device.backing
      connectable == [allowGuestControl |-> TRUE,
                      startConnected |-> (floppy_type # "none" /\ p.start_connected),
                      connected |-> IF v.runtime.powerState = "poweredOn"
                                    THEN (floppy_type # "none") ELSE FALSE]
  IN [operation |-> "edit",
      device |-> [floppy_device EXCEPT !.backing = backing, !.connectable = connectable]]

\* lines 316-327: the creation of a floppy, with its controller when missing
new_floppy(s, v, p) ==
  LET floppy_type == p.type
      existing == get_vm_sio_device(v)
      sio_device == IF existing = NoObject THEN create_sio_controller ELSE existing[1]
      s1 == IF existing = NoObject
            THEN [deviceChange |-> Append(s.deviceChange, sio_device),
                  change_detected |-> TRUE]
            ELSE s
      spec0 == create_floppy(sio_device, floppy_type, p.image_file)
      floppy_spec ==
        IF v.runtime.powerState = "poweredOn"
        THEN [spec0 EXCEPT !.device.connectable.connected = (floppy_type # "none"),
                           !.device.connectable.startConnected =
                               (floppy_type # "none" /\ p.start_connected)]
        ELSE spec0
  IN [deviceChange |-> Append(s1.deviceChange, floppy_spec), change_detected |-> TRUE]

configure_floppy_always_edits(s, v, p) ==
  IF v.config.template THEN s
  ELSE LET floppy_device == get_vm_floppy_device(v)
       IN IF floppy_device = NoObject THEN new_floppy(s, v, p)
          ELSE [deviceChange |-> Append(s.deviceChange, edit_floppy(v, floppy_device[1], p)),
                change_detected |-> TRUE]

configure_floppy_device_first(s, v, p) ==
  IF v.config.template THEN s
  ELSE LET floppy_device == get_vm_floppy_device(v)
           created == new_floppy(s, v, p)
       IN IF floppy_device = NoObject
          THEN [created EXCEPT !.deviceChange =
                  [i \in 1..Len(@) |-> created.deviceChange[Len(@) + 1 - i]]]
          ELSE IF ~is_equal_floppy(v, floppy_device[1], p.type, p.image_file)
          THEN [deviceChange |-> Append(s.deviceChange, edit_floppy(v, floppy_device[1], p)),
                change_detected |-> TRUE]
          ELSE s

configure_floppy(s, v, p) ==
  IF v.config.template THEN s
  ELSE LET floppy_device == get_vm_floppy_device(v)
       IN IF floppy_device = NoObject THEN new_floppy(s, v, p)
          ELSE IF ~is_equal_floppy(v, floppy_device[1], p.type, p.image_file)
          THEN [deviceChange |-> Append(s.deviceChange, edit_floppy(v, floppy_device[1], p)),
                change_detected |-> TRUE]
          ELSE s

\* module.fail_json(msg=...): the run ends with failed=True and the keys given
fail_json(msg) == [failed |-> TRUE, msg |-> msg]

\* lines 380-387, in order; NoObject when the parameters pass
validate(p) ==
  IF p.type = PyNone \/ p.type = "" THEN <<fail_json(<<"type is mandatory">>)>>
  ELSE IF p.type \notin {"none", "client", "flp"}
  THEN <<fail_json(<<"type is not valid. Permitted values: none, client, image_file">>)>>
  ELSE IF p.type = "image_file" /\ (p.image_file = PyNone \/ p.image_file = "")
  THEN <<fail_json(<<"image_file is mandatory in case type is flp">>)>>
  ELSE NoObject

RestrictedPrefix == "Failed to reconfigure virtual machine due to product versioning restrictions: "

restricted_version_no_detail(e_msg) == fail_json(<<RestrictedPrefix>>)

restricted_version_failure(e_msg) == fail_json(<<RestrictedPrefix>> \o e_msg)

\* ------------------------------------------------------- the remote job
RECURSIVE ApplyDeviceChange(_, _)
ApplyDeviceChange(devices, changes) ==
  IF changes = <<>> THEN devices
  ELSE LET op == Head(changes)
           sio == SelectSeq(devices, IsSio)
           next ==
             IF op.operation = "add" /\ IsSio(op.device)
               THEN Append(devices, [op.device EXCEPT !.key = RemoteKey(op.device.class)])
             ELSE IF op.operation = "add"
               THEN Append(devices, [op.device EXCEPT !.key = RemoteKey(op.device.class),
                                                      !.controllerKey =
                                                        IF sio = <<>> THEN @ ELSE Head(sio).key])
             ELSE IF op.operation = "edit"
               THEN [i \in 1..Len(devices) |->
                       IF devices[i].key = op.device.key THEN op.device ELSE devices[i]]
             ELSE SelectSeq(devices, LAMBDA d : d.key # op.device.key)
       IN ApplyDeviceChange(next, Tail(changes))

Terminal == {"success", "error"}

Init ==
  /\ vm \in VMs
  /\ params \in ParamSets
  /\ pc = "start"
  /\ self = NewHelper
  /\ vm_obj = vm
  /\ task = NoObject
  /\ fault = NoObject
  /\ result = [pending |-> TRUE]
  /\ run = 1
  /\ polls = 0
  /\ reconfig_calls = 0
  /\ facts_calls = 0
  /\ history = <<>>

\* ---------------------------------------------------- apply_floppy_op
Reconcile_state_ignored(v, p) == configure_floppy(NewHelper, v, p)

\* lines 372-392: the change set the run accumulates
Reconcile(v, p) ==
  IF p.state = "absent" THEN remove_floppy(NewHelper, v)
  ELSE configure_floppy(NewHelper, v, p)

\* lines 376-387: a validation failure ends the run before the reconciler
ValidationFails ==
  /\ pc = "start"
  /\ params.state = "present"
  /\ validate(params) # NoObject
  /\ pc' = "done"
  /\ result' = validate(params)[1]
  /\ vm_obj' = vm
  /\ UNCHANGED <<vm, params, self, task, fault, run, polls, reconfig_calls,
                 facts_calls, history>>

\* lines 372-397 and 412-413: nothing to change, the facts are returned
NoChange ==
  /\ pc = "start"
  /\ (params.state = "absent" \/ validate(params) = NoObject)
  /\ ~Reconcile(vm, params).change_detected
  /\ self' = Reconcile(vm, params)
  /\ vm_obj' = vm
  /\ facts_calls' = facts_calls + 1
  /\ result' = [changed |-> FALSE, failed |-> FALSE, instance |-> gather_facts(vm)]
  /\ pc' = "done"
  /\ UNCHANGED <<vm, params, task, fault, run, polls, reconfig_calls, history>>

\* lines 372-400 and 404: the change set is submitted and the job handle obtained
Submit ==
  /\ pc = "start"
  /\ (params.state = "absent" \/ validate(params) = NoObject)
  /\ Reconcile(vm, params).change_detected
  /\ self' = Reconcile(vm, params)
  /\ vm_obj' = vm
  /\ reconfig_calls' = reconfig_calls + 1
  /\ task' = <<[state |-> "queued"]>>
  /\ pc' = "waiting"
  /\ UNCHANGED <<vm, params, fault, result, run, polls, facts_calls, history>>

\* lines 372-403: ReconfigVM_Task raises vim.fault.RestrictedVersion
SubmitRejected ==
  /\ pc = "start"
  /\ (params.state = "absent" \/ validate(params) = NoObject)
  /\ Reconcile(vm, params).change_detected
  /\ self' = Reconcile(vm, params)
  /\ vm_obj' = vm
  /\ reconfig_calls' = reconfig_calls + 1
  /\ \E m \in RemoteMsgs :
       /\ fault' = <<[msg |-> m]>>
       /\ result' = restricted_version_failure(m)
  /\ pc' = "done"
  /\ UNCHANGED <<vm, params, task, run, polls, facts_calls, history>>

\* ------------------------------------------------------ wait_for_task
\* line 420-421: the state is not terminal, sleep one second and look again
WaitSleep ==
  /\ pc = "waiting"
  /\ task[1].state \notin Terminal
  /\ polls' = IF polls < MaxPolls THEN polls + 1 ELSE polls
  /\ UNCHANGED <<vm, params, pc, self, vm_obj, task, fault, result, run,
                 reconfig_calls, facts_calls, history>>

WaitReturnEarly ==
  /\ pc = "waiting"
  /\ pc' = "waited"
  /\ UNCHANGED <<vm, params, self, vm_obj, task, fault, result, run, polls,
                 reconfig_calls, facts_calls, history>>

\* line 420: the loop ends when the state is terminal
WaitReturn ==
  /\ pc = "waiting"
  /\ task[1].state \in Terminal
  /\ pc' = "waited"
  /\ UNCHANGED <<vm, params, self, vm_obj, task, fault, result, run, polls,
                 reconfig_calls, facts_calls, history>>

\* lines 405-413 with a slip: the facts are read before the state is looked at
ClassifyFactsFirst ==
  /\ pc = "waited"
  /\ facts_calls' = facts_calls + 1
  /\ result' = IF task[1].state = "error"
               THEN [changed |-> TRUE, failed |-> TRUE, msg |-> task[1].error.msg]
               ELSE [changed |-> TRUE, failed |-> FALSE, instance |-> gather_facts(vm_obj)]
  /\ pc' = "done"
  /\ UNCHANGED <<vm, params, self, vm_obj, task, fault, run, polls,
                 reconfig_calls, history>>

\* lines 405-413: the outcome of the job decides the result
Classify ==
  /\ pc = "waited"
  /\ IF task[1].state = "error"
     THEN /\ result' = [changed |-> TRUE, failed |-> TRUE, msg |-> task[1].error.msg]
          /\ UNCHANGED facts_calls
     ELSE /\ facts_calls' = facts_calls + 1
          /\ result' = [changed |-> TRUE, failed |-> FALSE, instance |-> gather_facts(vm)]
  /\ pc' = "done"
  /\ UNCHANGED <<vm, params, self, vm_obj, task, fault, run, polls,
                 reconfig_calls, history>>

\* ----------------------------------------------- the remote system's job
TaskRuns ==
  /\ task # NoObject
  /\ task[1].state = "queued"
  /\ task' = <<[state |-> "running"]>>
  /\ UNCHANGED <<vm, params, pc, self, vm_obj, fault, result, run, polls,
                 reconfig_calls, facts_calls, history>>

TaskSucceeds ==
  /\ task # NoObject
  /\ task[1].state = "running"
  /\ task' = <<[state |-> "success"]>>
  /\ vm' = [vm EXCEPT !.config.hardware.device = ApplyDeviceChange(@, self.deviceChange)]
  /\ UNCHANGED <<params, pc, self, vm_obj, fault, result, run, polls,
                 reconfig_calls, facts_calls, history>>

TaskFails ==
  /\ task # NoObject
  /\ task[1].state = "running"
  /\ \E m \in RemoteMsgs : task' = <<[state |-> "error", error |-> [msg |-> m]]>>
  /\ UNCHANGED <<vm, params, pc, self, vm_obj, fault, result, run, polls,
                 reconfig_calls, facts_calls, history>>

\* the module is run again with the same parameters: a new process, a new helper
NextRun ==
  /\ pc = "done"
  /\ run < MaxRuns
  /\ run' = run + 1
  /\ history' = Append(history, result)
  /\ pc' = "start"
  /\ self' = NewHelper
  /\ vm_obj' = vm
  /\ task' = NoObject
  /\ fault' = NoObject
  /\ result' = [pending |-> TRUE]
  /\ polls' = 0
  /\ reconfig_calls' = 0
  /\ facts_calls' = 0
  /\ UNCHANGED <<vm, params>>

Next ==
  \/ ValidationFails
  \/ NoChange
  \/ Submit
  \/ SubmitRejected
  \/ WaitSleep
  \/ WaitReturn
  \/ Classify
  \/ TaskRuns
  \/ TaskSucceeds
  \/ TaskFails
  \/ NextRun

Spec == Init /\ [][Next]_vars

\* the VMs of the runs whose wait is followed to its end: every hardware list
\* shape, the floppy (when there is one) connected and guest-controlled
WaitVMs ==
  { v \in VMs :
      \A i \in 1..Len(v.config.hardware.device) :
        LET dev == v.config.hardware.device[i]
        IN IsFloppy(dev) =>
             /\ dev.connectable = [allowGuestControl |-> TRUE, startConnected |-> TRUE,
                                   connected |-> TRUE]
             /\ dev.backing \in {RemoteDeviceBackingInfo,
                                 ImageBackingInfo("[datastore1] base.flp")} }

InitWait == Init /\ vm \in WaitVMs

\* the process that runs the module keeps running: its poll loop and the code
\* after it are taken when they can be; the remote job owes nothing
FairSpec == InitWait /\ [][Next]_vars /\ WF_vars(WaitReturn) /\ WF_vars(Classify)

\* ------------------------------------------------------------ properties
ValidTypes == {"none", "client", "flp"}
ValidPresent == params.state = "present" /\ params.type \in ValidTypes
PassesValidation == params.state = "absent" \/ validate(params) = NoObject
SeenFloppy == get_vm_floppy_device(vm_obj)
SeenSio == get_vm_sio_device(vm_obj)
SeenEqual ==
  /\ SeenFloppy # NoObject
  /\ is_equal_floppy(vm_obj, SeenFloppy[1], params.type, params.image_file)
NotChangedNotFailed ==
  /\ "changed" \in DOMAIN result /\ result.changed = FALSE
  /\ "failed" \in DOMAIN result /\ result.failed = FALSE
JobState == IF task = NoObject THEN "no job" ELSE task[1].state

\* C1: on the present path, when is_equal_floppy holds for the existing floppy
\* and the requested type and path, configure_floppy appends nothing to
\* deviceChange and leaves change_detected false.
C1_EqualFloppyEmitsNothing ==
  (pc # "start" /\ ValidPresent /\ SeenEqual)
    => (self.deviceChange = <<>> /\ ~self.change_detected)

C1_Witness ==
  /\ pc = "done" /\ ValidPresent /\ SeenEqual
  /\ ~vm_obj.config.template
  /\ vm_obj.runtime.powerState = "poweredOn"
  /\ params.type = "flp"
  /\ reconfig_calls = 0

\* C2: a valid present descriptor against a non-template VM that does not
\* satisfy it: when the job of the first run succeeds, the first run reports
\* changed=true and the second run with the same descriptor changed=false.
C2_ConvergesInTwoRuns ==
  /\ (run = 1 /\ pc = "done" /\ ValidPresent /\ ~vm_obj.config.template
        /\ ~SeenEqual /\ JobState = "success")
       => ("changed" \in DOMAIN result /\ result.changed = TRUE)
  /\ (run = 2 /\ pc = "done" /\ ValidPresent /\ ~vm_obj.config.template
        /\ "changed" \in DOMAIN history[1] /\ history[1].changed = TRUE
        /\ history[1].failed = FALSE
        /\ JobState \in {"no job", "success"} /\ fault = NoObject)
       => ("changed" \in DOMAIN result /\ result.changed = FALSE)

\* C3: state=present, type=flp and no image_file ends in a validation failure:
\* configure_floppy is not run, no change is built, no job is submitted.
C3_FlpWithoutImageFails ==
  (pc # "start" /\ params.state = "present" /\ params.type = "flp"
     /\ params.image_file = PyNone)
    => /\ pc = "done"
       /\ result.failed = TRUE
       /\ self.deviceChange = <<>>
       /\ reconfig_calls = 0
       /\ task = NoObject

C5_RejectionVerbatim ==
  (pc = "done" /\ fault # NoObject)
    => /\ "changed" \in DOMAIN result /\ result.changed = TRUE
       /\ result.failed = TRUE
       /\ result.msg = fault[1].msg
       /\ reconfig_calls = 1

\* C5: a submission rejected with RestrictedVersion is reported with
\* failed=true and the message "Failed to reconfigure virtual machine due to
\* product versioning restrictions: " followed by the remote message; the
\* result carries no changed key; no job is waited for, no facts are read and
\* the submission is not retried.
C5_RejectionSurfaced ==
  (pc = "done" /\ fault # NoObject)
    => /\ DOMAIN result = {"failed", "msg"}
       /\ result.failed = TRUE
       /\ result.msg = <<RestrictedPrefix>> \o fault[1].msg
       /\ reconfig_calls = 1
       /\ task = NoObject
       /\ facts_calls = 0

C5_Witness ==
  /\ pc = "done" /\ fault # NoObject
  /\ self.deviceChange # <<>>
  /\ result.failed = TRUE

\* C6: state=present on a non-template VM without a floppy: without an SIO
\* controller the change set is [add controller, add floppy] in that order and
\* the floppy's controllerKey is the key of the added controller; with an SIO
\* controller the change set is [add floppy] alone, on the existing controller.
C6_ControllerBeforeDevice ==
  (pc # "start" /\ ValidPresent /\ ~vm_obj.config.template /\ SeenFloppy = NoObject)
    => LET dc == self.deviceChange
       IN IF SeenSio = NoObject
          THEN /\ Len(dc) = 2
               /\ dc[1].operation = "add" /\ IsSio(dc[1].device)
               /\ dc[2].operation = "add" /\ IsFloppy(dc[2].device)
               /\ dc[2].device.controllerKey = dc[1].device.key
          ELSE /\ Len(dc) = 1
               /\ dc[1].operation = "add" /\ IsFloppy(dc[1].device)
               /\ dc[1].device.controllerKey = SeenSio[1].key

C6_Witness ==
  /\ pc = "done" /\ ValidPresent /\ ~vm_obj.config.template
  /\ SeenFloppy = NoObject /\ SeenSio = NoObject
  /\ Len(self.deviceChange) = 2
  /\ JobState = "success"
  /\ get_vm_sio_device(vm) # NoObject /\ get_vm_floppy_device(vm) # NoObject

\* C7: state=absent on a non-template VM: without a floppy nothing is emitted,
\* no job is submitted and the result is changed=false, failed=false; with a
\* floppy the change set is one remove of that device, whatever the type,
\* image_file and start_connected.
C7_AbsentPath ==
  (pc # "start" /\ params.state = "absent" /\ ~vm_obj.config.template)
    => IF SeenFloppy = NoObject
       THEN /\ self.deviceChange = <<>>
            /\ reconfig_calls = 0
            /\ task = NoObject
            /\ pc = "done"
            /\ NotChangedNotFailed
       ELSE self.deviceChange = <<[operation |-> "remove", device |-> SeenFloppy[1]]>>

C7_Witness ==
  /\ pc = "done" /\ params.state = "absent" /\ ~vm_obj.config.template
  /\ SeenFloppy # NoObject
  /\ params.type = PyNone
  /\ JobState = "success"
  /\ get_vm_floppy_device(vm) = NoObject

C9_JobOutcome ==
  /\ (pc = "done" /\ task # NoObject) =>
       /\ result.changed = TRUE
       /\ task[1].state \in Terminal
       /\ IF task[1].state = "error"
          THEN /\ result.failed = TRUE
               /\ DOMAIN result = {"changed", "failed", "msg"}
               /\ result.msg = task[1].error.msg
               /\ facts_calls = 0
          ELSE /\ result.failed = FALSE
               /\ DOMAIN result = {"changed", "failed", "instance"}
               /\ result.instance = gather_facts(vm)
               /\ facts_calls = 1
  /\ (task # NoObject /\ facts_calls > 0) => task[1].state = "success"

C9_Witness ==
  /\ pc = "done" /\ JobState = "success"
  /\ result.instance = gather_facts(vm)
  /\ result.instance # gather_facts(vm_obj)

\* C10: wait_for_task returns only when the job state is success or error, so
\* no result is reported for a job that still runs; while the state is not
\* terminal the wait goes on, however long it has lasted; once the job is
\* terminal the wait returns.
C10_WaitUntilTerminal ==
  /\ [][(pc = "waiting" /\ task[1].state \notin Terminal) => pc' = "waiting"]_vars
  /\ [](pc \in {"waited", "done"} /\ task # NoObject => task[1].state \in Terminal)
  /\ ((pc = "waiting" /\ task[1].state \in Terminal) ~> (pc = "done"))

C10_Witness ==
  /\ pc = "waited"
  /\ polls = MaxPolls
  /\ task[1].state \in Terminal

====
